---- MODULE Spec2Model ----
(***************************************************************************)
(* Model of packages/common/src/engines.rs (wasmer-python).                *)
(*                                                                         *)
(* The file defines three Python classes:                                  *)
(*   OpaqueCompiler  a carrier owning  inner: OpaqueCompilerInner, which   *)
(*                   owns an Arc<dyn CompilerConfig>;                      *)
(*   JIT             an engine, built by JIT::new(compiler: Option<&PyAny>)*)
(*   Native          an engine type that has NO #[new] constructor.        *)
(*                                                                         *)
(* JIT::new calls back into Python twice (into_opaque_compiler and         *)
(* __inner_as_ptr), so each call is an activation whose program counter    *)
(* advances one source statement at a time; the activations form the call  *)
(* `stack`.  While the innermost activation is inside a method defined in  *)
(* Python, that method's code runs: it may create or drop carriers, read   *)
(* handles, drop engines and call the constructors again (JIT::new is      *)
(* re-entrant), and it finally raises or returns a value of its choosing.  *)
(* From the pointer cast on (lines 36-53) the constructor is plain Rust    *)
(* and nothing interleaves.  A constructor's outcome is held in `result`   *)
(* until its Python caller takes it.                                       *)
(*                                                                         *)
(* The object returned by into_opaque_compiler is bound to a &PyAny, a     *)
(* reference owned by the constructor call: it stays alive until the call  *)
(* returns and is released then.  The carrier a compiler package creates   *)
(* inside into_opaque_compiler has no other referent, so it is deallocated *)
(* when JIT::new returns.                                                  *)
(***************************************************************************)
EXTENDS Integers, Sequences, FiniteSets, TLC

\* ---------------------------------------------------------------- bounds
MaxCarriers == 2      \* OpaqueCompiler objects ever created
MaxAddr     == 2      \* addresses the allocator can hand out: 1..MaxAddr
NumConfigs  == 2      \* distinct compiler configurations
MaxEngines  == 2      \* engine objects alive or under construction at once

CarrierIds == 1..MaxCarriers
Addrs      == 1..MaxAddr
Configs    == 1..NumConfigs
WildAddr   == MaxAddr + 1     \* a non-zero integer that is the address of no carrier, ever
Variants   == {"JIT", "Native"}

\* ------------------------------------------------------- values and inputs
Duck     == -1    \* obj: a Python object that is not an OpaqueCompiler
Wild     == -1    \* target: the reference points at no live carrier
Garbage  == -1    \* arc, built: bytes that are no live Arc / a compiler made from them
Headless == 0     \* built: no compiler
Raises   == -2    \* __inner_as_ptr raises a Python exception
NotUsize == -1    \* __inner_as_ptr returns something extract::<usize>() rejects

\* The `compiler` argument of a constructor: Option<&PyAny>.
\*   none      compiler is None
\*   compiler  an object of a compiler package: into_opaque_compiler() wraps a
\*             fresh configuration with OpaqueCompiler::raw_with_compiler
\*   null      an object whose into_opaque_compiler() returns an object whose
\*             __inner_as_ptr() returns 0, neither doing anything else
\*   duck      any other Python object: its methods run Python code, then
\*             into_opaque_compiler() raises or returns an object, whose
\*             __inner_as_ptr() raises, returns a non-usize, or returns an
\*             integer of its choosing
NoneArg      == [kind |-> "none", cfg |-> 0]
CompilerArgs == {[kind |-> "compiler", cfg |-> c] : c \in Configs}
NullArg      == [kind |-> "null", cfg |-> 0]
DuckArg      == [kind |-> "duck", cfg |-> 0]
Args         == {NoneArg, NullArg, DuckArg} \cup CompilerArgs

\* What a duck's methods may answer.
CallReplies == {"raise", "ok"}
PtrReplies  == Raises..WildAddr

\* The statements of the Some(compiler) arm of JIT::new, in source order.
Protocol == <<"into_opaque_compiler", "inner_as_ptr", "resolve", "clone", "factory">>

VARIABLES
    carriers,    \* OpaqueCompiler objects: [st, addr, cfg]; addr is the address of field `inner`
    strong,      \* strong count of the Arc created by carrier k's raw_with_compiler
    freed,       \* the configuration inside that Arc has been destroyed
    stack,       \* the running activations of JIT::new, outermost first
    engines,     \* number of live engine objects of each variant
    result,      \* what the constructor that just finished handed to its caller
    issued,      \* integers that OpaqueCompiler::__inner_as_ptr has returned so far
    lastHandle,  \* per live carrier, the integer its __inner_as_ptr returned last (0: never called)
    crashed      \* the process was killed by a wild memory access

vars == <<carriers, strong, freed, stack, engines, result, issued, lastHandle, crashed>>

\* ------------------------------------------------------------ pure helpers
Alive(k) == carriers[k].st = "alive"

\* The live carrier whose `inner` field is at address a, 0 if there is none.
ObjAt(a) ==
    IF \E k \in CarrierIds : Alive(k) /\ carriers[k].addr = a
    THEN CHOOSE k \in CarrierIds : Alive(k) /\ carriers[k].addr = a
    ELSE 0

\* Addresses the allocator may give to a new object: those of no live object.
FreeAddrs == {a \in Addrs : ObjAt(a) = 0}

UnusedCarriers == {k \in CarrierIds : carriers[k].st = "unused"}
NextCarrier    == CHOOSE k \in UnusedCarriers : \A j \in UnusedCarriers : k <= j

\* Arcs that exist: those whose strong count is positive.
LiveArcs == {k \in CarrierIds : strong[k] > 0}

\* Faulty variants of __inner_as_ptr, used to test the properties below:
\* the address of a neighbouring object, an address that changes when other
\* objects are allocated, and the address of data shared by all carriers of
\* the same configuration type.
InnerAsPtrNeighbour(k) == (carriers[k].addr % MaxAddr) + 1
InnerAsPtrUnstable(k) ==
    IF Cardinality({j \in CarrierIds : Alive(j)}) > 1 THEN WildAddr ELSE carriers[k].addr
InnerAsPtrOfConfig(k) == carriers[k].cfg

\* OpaqueCompiler::__inner_as_ptr: the address of self.inner as usize.
InnerAsPtr(k) == carriers[k].addr

\* <*const OpaqueCompilerInner>::as_ref: None for the null pointer, Some otherwise.
NullRef == 0
\* Faulty variant: the pointer is dereferenced without the null test.
AsRefUnchecked(p) == IF p = 0 THEN WildAddr ELSE p
AsRef(p) == IF p = 0 THEN NullRef ELSE p

\* Arc::clone and Arc::drop on the strong count; the value is destroyed by the
\* drop that finds the count at 1.
\* Faulty variants: a clone that does not count itself, and a drop that
\* destroys the value while another owner remains.
ArcCloneUncounted(s, k) == s
IsLastOwnerEarly(s, k) == s[k] <= 2
ArcClone(s, k) == [s EXCEPT ![k] = @ + 1]
ArcDrop(s, k)  == [s EXCEPT ![k] = @ - 1]
IsLastOwner(s, k) == s[k] = 1

\* Faulty variant: the engine factory is called before the Arc is cloned.
StepAfterFactoryFirst(pc) ==
    CASE pc = "into_opaque_compiler" -> "inner_as_ptr"
      [] pc = "inner_as_ptr"         -> "resolve"
      [] pc = "resolve"              -> "factory"
      [] pc = "factory"              -> "clone"
      [] pc = "clone"                -> "return"

\* The statement that follows statement pc in the Some(compiler) arm.
StepAfter(pc) ==
    CASE pc = "into_opaque_compiler" -> "inner_as_ptr"
      [] pc = "inner_as_ptr"         -> "resolve"
      [] pc = "resolve"              -> "clone"
      [] pc = "clone"                -> "factory"
      [] pc = "factory"              -> "return"

\* ------------------------------------------------------------------ frames
\* The locals of one activation of JIT::new:
\*   arg     compiler                    (line 26)
\*   obj     opaque_compiler             (line 31): a carrier id, or Duck
\*   ptr     opaque_compiler_inner_ptr   (lines 32-37)
\*   target  opaque_compiler_inner_ref   (lines 39-45): the carrier referred to, or Wild
\*   arc     the Arc that the bytes behind the reference denote: the one made
\*           by carrier arc's raw_with_compiler, or Garbage; it is the Arc
\*           that opaque_compiler_inner (lines 47-48) is a clone of
\*   built   the compiler inside the engine made at line 50
\*   steps   the statements executed so far
IdleFrame ==
    [arg |-> NoneArg, pc |-> "idle", obj |-> 0, ptr |-> 0,
     target |-> 0, arc |-> 0, built |-> 0, steps |-> <<>>]

NewFrame(arg) == [IdleFrame EXCEPT !.arg = arg, !.pc = "into_opaque_compiler"]

Finished(variant, arg, outcome, f) ==
    [variant |-> variant, arg |-> arg, outcome |-> outcome, steps |-> f.steps,
     ptr |-> f.ptr, target |-> f.target, arc |-> f.arc, built |-> f.built]

NoResult == Finished("none", NoneArg, "none", IdleFrame)

\* Nesting depth of constructor calls, and the innermost activation.
Depth == Len(stack)
frame == IF stack = <<>> THEN IdleFrame ELSE stack[Len(stack)]
Frames == {stack[i] : i \in 1..Len(stack)}

\* The stack with the innermost activation replaced by f, and without it.
WithTop(f) == [stack EXCEPT ![Len(stack)] = f]
Outer      == SubSeq(stack, 1, Len(stack) - 1)

Pinned(k) == \E f \in Frames : f.obj = k

\* Python code is running: at top level, or inside a Python-defined method
\* that the innermost JIT::new is calling.
PythonRunning ==
    /\ ~crashed
    /\ result = NoResult
    /\ \/ Depth = 0
       \/ /\ frame.arg.kind = "duck"
          /\ frame.pc \in {"into_opaque_compiler", "inner_as_ptr"}

\* The innermost JIT::new is about to execute statement pc.
AtStep(pc) == ~crashed /\ result = NoResult /\ frame.pc = pc

Init ==
    /\ carriers = [k \in CarrierIds |-> [st |-> "unused", addr |-> 0, cfg |-> 0]]
    /\ strong = [k \in CarrierIds |-> 0]
    /\ freed = [k \in CarrierIds |-> FALSE]
    /\ stack = <<>>
    /\ engines = [v \in Variants |-> 0]
    /\ result = NoResult
    /\ issued = {}
    /\ lastHandle = [k \in CarrierIds |-> 0]
    /\ crashed = FALSE

\* ------------------------------------------------ OpaqueCompiler operations

\* OpaqueCompiler::raw_with_compiler(c), the object placed at address a.
RawWithCompiler(k, c, a) ==
    /\ carriers' = [carriers EXCEPT ![k] = [st |-> "alive", addr |-> a, cfg |-> c]]
    /\ strong' = [strong EXCEPT ![k] = 1]
    /\ freed' = [freed EXCEPT ![k] = FALSE]

\* A compiler package creates a carrier from Python code.
Wrap(c) ==
    /\ PythonRunning
    /\ UnusedCarriers # {}
    /\ \E a \in FreeAddrs : RawWithCompiler(NextCarrier, c, a)
    /\ UNCHANGED <<stack, engines, result, issued, lastHandle, crashed>>

\* Python code calls carrier.__inner_as_ptr().
HandleOf(k) ==
    /\ PythonRunning
    /\ Alive(k)
    /\ lastHandle' = [lastHandle EXCEPT ![k] = InnerAsPtr(k)]
    /\ issued' = issued \cup {InnerAsPtr(k)}
    /\ UNCHANGED <<carriers, strong, freed, stack, engines, result, crashed>>

\* The last Python reference to carrier k goes away: the object is deallocated
\* and its field inner.compiler_config (an Arc) is dropped.
DropCarrier(k) ==
    /\ PythonRunning
    /\ Alive(k)
    /\ ~Pinned(k)
    /\ carriers' = [carriers EXCEPT ![k] = [st |-> "dropped", addr |-> 0, cfg |-> 0]]
    /\ freed' = [freed EXCEPT ![k] = IsLastOwner(strong, k)]
    /\ strong' = ArcDrop(strong, k)
    /\ lastHandle' = [lastHandle EXCEPT ![k] = 0]
    /\ UNCHANGED <<stack, engines, result, issued, crashed>>

\* ----------------------------------------------------------------- JIT::new

\* compiler = None: wasmer::JIT::headless().engine()  (line 29)
JITNewHeadless ==
    /\ PythonRunning
    /\ engines["JIT"] + Depth < MaxEngines
    /\ engines' = [engines EXCEPT !["JIT"] = @ + 1]
    /\ result' = Finished("JIT", NoneArg, "Ok", [IdleFrame EXCEPT !.built = Headless])
    /\ UNCHANGED <<carriers, strong, freed, stack, issued, lastHandle, crashed>>

\* compiler = Some(arg): enter the Some arm (line 30).  The caller is Python
\* code at top level or inside a method that an outer JIT::new is calling.
JITNewCall(arg) ==
    /\ PythonRunning
    /\ arg.kind # "none"
    /\ engines["JIT"] + Depth < MaxEngines
    /\ arg.kind = "compiler" => UnusedCarriers # {} /\ FreeAddrs # {}
    /\ stack' = Append(stack, NewFrame(arg))
    /\ UNCHANGED <<carriers, strong, freed, engines, result, issued, lastHandle, crashed>>

\* The constructor call ends: the reference to the object that
\* into_opaque_compiler returned is released.  If that object is a carrier
\* (created for this call) it is deallocated, dropping its Arc; s and fr are
\* the counts and the destroyed flags at that moment.
ReleaseTemp(o, s, fr) ==
    IF o \in CarrierIds
    THEN /\ carriers' = [carriers EXCEPT ![o] = [st |-> "dropped", addr |-> 0, cfg |-> 0]]
         /\ freed' = [fr EXCEPT ![o] = IsLastOwner(s, o)]
         /\ strong' = ArcDrop(s, o)
         /\ lastHandle' = [lastHandle EXCEPT ![o] = 0]
    ELSE /\ carriers' = carriers
         /\ freed' = fr
         /\ strong' = s
         /\ lastHandle' = lastHandle

\* The `?` operator: the constructor returns the error, the activation is gone.
ReturnErr(outcome, f) ==
    /\ stack' = Outer
    /\ result' = Finished("JIT", f.arg, outcome, f)

\* compiler.call_method0("into_opaque_compiler")?  (line 31)
IntoOpaqueCompiler ==
    /\ AtStep("into_opaque_compiler")
    /\ LET f == [frame EXCEPT !.steps = Append(@, "into_opaque_compiler")] IN
       \/ /\ f.arg.kind = "duck"
          /\ \E reply \in CallReplies :
               \/ /\ reply = "raise"
                  /\ ReturnErr("CallError", f)
               \/ /\ reply = "ok"
                  /\ stack' = WithTop([f EXCEPT !.obj = Duck, !.pc = StepAfter(f.pc)])
                  /\ UNCHANGED result
          /\ UNCHANGED <<carriers, strong, freed>>
       \/ /\ f.arg.kind = "null"
          /\ stack' = WithTop([f EXCEPT !.obj = Duck, !.pc = StepAfter(f.pc)])
          /\ UNCHANGED <<carriers, strong, freed, result>>
       \/ /\ f.arg.kind = "compiler"
          /\ \E a \in FreeAddrs : RawWithCompiler(NextCarrier, f.arg.cfg, a)
          /\ stack' = WithTop([f EXCEPT !.obj = NextCarrier, !.pc = StepAfter(f.pc)])
          /\ UNCHANGED result
    /\ UNCHANGED <<engines, issued, lastHandle, crashed>>

\* opaque_compiler.call_method0("__inner_as_ptr")?.extract::<usize>()?  (lines 32-34)
InnerAsPtrCall ==
    /\ AtStep("inner_as_ptr")
    /\ LET f == [frame EXCEPT !.steps = Append(@, "inner_as_ptr")] IN
       \/ /\ f.obj # Duck
          /\ stack' = WithTop([f EXCEPT !.ptr = InnerAsPtr(f.obj), !.pc = StepAfter(f.pc)])
          /\ lastHandle' = [lastHandle EXCEPT ![f.obj] = InnerAsPtr(f.obj)]
          /\ issued' = issued \cup {InnerAsPtr(f.obj)}
          /\ UNCHANGED result
       \/ /\ f.obj = Duck
          /\ \E reply \in IF f.arg.kind = "null" THEN {0} ELSE PtrReplies :
               \/ /\ reply = Raises
                  /\ ReturnErr("PtrCallError", f)
               \/ /\ reply = NotUsize
                  /\ ReturnErr("ExtractError", f)
               \/ /\ reply >= 0
                  /\ stack' = WithTop([f EXCEPT !.ptr = reply, !.pc = StepAfter(f.pc)])
                  /\ UNCHANGED result
          /\ UNCHANGED <<issued, lastHandle>>
    /\ UNCHANGED <<carriers, strong, freed, engines, crashed>>

\* The cast to *const OpaqueCompilerInner and unsafe as_ref().ok_or_else(..)?
\* (lines 36-45).  as_ref only tests for null; a non-null pointer becomes a
\* reference without any read.  If a live carrier's `inner` is at that address
\* the reference denotes that carrier's Arc.  Otherwise the reference is wild
\* and what it denotes is whatever bytes are there: a copy of the Arc of some
\* live carrier, or nothing usable.
Resolve ==
    /\ AtStep("resolve")
    /\ LET f == [frame EXCEPT !.steps = Append(@, "resolve")] IN
       \/ /\ AsRef(f.ptr) = NullRef
          /\ ReturnErr("TransferError", f)
          /\ ReleaseTemp(f.obj, strong, freed)
       \/ /\ AsRef(f.ptr) # NullRef
          /\ ObjAt(AsRef(f.ptr)) # 0
          /\ stack' = WithTop([f EXCEPT !.target = ObjAt(AsRef(f.ptr)),
                                        !.arc = ObjAt(AsRef(f.ptr)),
                                        !.pc = StepAfter(f.pc)])
          /\ UNCHANGED <<carriers, strong, freed, lastHandle, result>>
       \/ /\ AsRef(f.ptr) # NullRef
          /\ ObjAt(AsRef(f.ptr)) = 0
          /\ \E a \in {Garbage} \cup LiveArcs :
               stack' = WithTop([f EXCEPT !.target = Wild, !.arc = a,
                                          !.pc = StepAfter(f.pc)])
          /\ UNCHANGED <<carriers, strong, freed, lastHandle, result>>
    /\ UNCHANGED <<engines, issued, crashed>>

\* opaque_compiler_inner_ref.clone(): the derived Clone clones the Arc that
\* the referent holds, incrementing its strong count (lines 47-48).  Through a
\* wild reference this is undefined behaviour: if the bytes denote a live Arc
\* that Arc is cloned, otherwise the process crashes or goes on with garbage.
Clone ==
    /\ AtStep("clone")
    /\ LET f == [frame EXCEPT !.steps = Append(@, "clone")] IN
       \/ /\ f.arc \in CarrierIds
          /\ stack' = WithTop([f EXCEPT !.pc = StepAfter(f.pc)])
          /\ strong' = ArcClone(strong, f.arc)
          /\ UNCHANGED crashed
       \/ /\ f.arc \notin CarrierIds
          /\ \/ /\ stack' = WithTop([f EXCEPT !.pc = StepAfter(f.pc)])
                /\ UNCHANGED crashed
             \/ /\ stack' = WithTop(f)
                /\ crashed' = TRUE
          /\ UNCHANGED strong
    /\ UNCHANGED <<carriers, freed, engines, result, issued, lastHandle>>

\* wasmer::JIT::new(opaque_compiler_inner.compiler_config.as_ref()).engine() (line 50):
\* the factory borrows the configuration and returns an engine that owns a
\* compiler made from it, not the Arc.  The borrow goes through the clone's
\* fat pointer (data and vtable).  After a wild reference this is still
\* undefined behaviour, whatever Arc was cloned: the call crashes (the count
\* raised by the clone stays raised), or it returns an engine made from the
\* configuration of the cloned Arc or from garbage.
Factory ==
    /\ AtStep("factory")
    /\ LET f == [frame EXCEPT !.steps = Append(@, "factory")] IN
       \/ /\ f.target # Wild
          /\ stack' = WithTop([f EXCEPT !.built = carriers[f.arc].cfg, !.pc = StepAfter(f.pc)])
          /\ UNCHANGED crashed
       \/ /\ f.target = Wild
          /\ \/ /\ \E b \in {Garbage} \cup
                            (IF f.arc \in CarrierIds THEN {carriers[f.arc].cfg} ELSE {}) :
                     stack' = WithTop([f EXCEPT !.built = b, !.pc = StepAfter(f.pc)])
                /\ UNCHANGED crashed
             \/ /\ stack' = WithTop(f)
                /\ crashed' = TRUE
    /\ UNCHANGED <<carriers, strong, freed, engines, result, issued, lastHandle>>

\* End of the Some arm (line 51): the local opaque_compiler_inner is dropped,
\* then Ok(Self { inner }) is returned (lines 27, 53) and the call ends.  The
\* drop of a clone of a live Arc decrements its count.  The drop of a clone
\* made from garbage is undefined behaviour: it touches no live count and the
\* call returns, or the process crashes in the drop, after the factory has
\* returned and before any engine is delivered.
Return ==
    /\ AtStep("return")
    /\ \/ /\ LET t  == frame.arc
                 s1 == IF t \in CarrierIds THEN ArcDrop(strong, t) ELSE strong
                 f1 == IF t \in CarrierIds THEN [freed EXCEPT ![t] = IsLastOwner(strong, t)]
                       ELSE freed
             IN  ReleaseTemp(frame.obj, s1, f1)
          /\ engines' = [engines EXCEPT !["JIT"] = @ + 1]
          /\ stack' = Outer
          /\ result' = Finished("JIT", frame.arg, "Ok", frame)
          /\ UNCHANGED crashed
       \/ /\ frame.arc \notin CarrierIds
          /\ crashed' = TRUE
          /\ UNCHANGED <<carriers, strong, freed, lastHandle, engines, stack, result>>
    /\ UNCHANGED issued

\* ------------------------------------------------------------------ Native

\* Native is a #[pyclass] with no #[new] method (lines 65-75): calling
\* Native(...) from Python raises TypeError whatever the argument, and no
\* statement of this file runs.
NativeNew(arg) ==
    /\ PythonRunning
    /\ result' = Finished("Native", arg, "NoConstructor", IdleFrame)
    /\ UNCHANGED <<carriers, strong, freed, stack, engines, issued, lastHandle, crashed>>

\* ------------------------------------------------------- the Python caller

\* The caller of the constructor takes the engine or the exception.
Received ==
    /\ ~crashed
    /\ result # NoResult
    /\ result' = NoResult
    /\ UNCHANGED <<carriers, strong, freed, stack, engines, issued, lastHandle, crashed>>

\* The last Python reference to an engine object goes away.
DropEngine(v) ==
    /\ PythonRunning
    /\ engines[v] > 0
    /\ engines' = [engines EXCEPT ![v] = @ - 1]
    /\ UNCHANGED <<carriers, strong, freed, stack, result, issued, lastHandle, crashed>>

Next ==
    \/ \E c \in Configs : Wrap(c)
    \/ \E k \in CarrierIds : HandleOf(k)
    \/ \E k \in CarrierIds : DropCarrier(k)
    \/ JITNewHeadless
    \/ \E arg \in Args : JITNewCall(arg)
    \/ IntoOpaqueCompiler
    \/ InnerAsPtrCall
    \/ Resolve
    \/ Clone
    \/ Factory
    \/ Return
    \/ \E arg \in Args : NativeNew(arg)
    \/ Received
    \/ \E v \in Variants : DropEngine(v)

Spec == Init /\ [][Next]_vars

\* ========================================================== properties

Range(seq) == {seq[i] : i \in 1..Len(seq)}
IsPrefix(s, t) == Len(s) <= Len(t) /\ \A i \in 1..Len(s) : s[i] = t[i]
Prefix(n) == SubSeq(Protocol, 1, n)

\* Activation f holds a clone of Arc k (after line 48, before line 51).
HoldsCloneOf(f, k) == f.arc = k /\ f.pc \in {"factory", "return"}
\* The number of activations that hold a clone of Arc k.
Clones(k) == Cardinality({i \in 1..Len(stack) : HoldsCloneOf(stack[i], k)})
\* Activation f has its reference (line 40 done).
PastResolve(f) == f.pc \in {"clone", "factory", "return"}
\* Activation f has read through its reference (line 48 reached).
Dereferenced(f) == "clone" \in Range(f.steps)
JITDone == result.variant = "JIT"
Present(arg) == arg.kind # "none"
\* A compiler argument whose handle is the null integer.
NullHandleArg(arg) == arg.kind = "null"

\* C1  Null handle rejection.  Whenever JIT::new is about to resolve the
\* integer 0, the step ends the call with the TransferError outcome: no
\* reference is produced, no strong count or carrier changes, no engine is
\* created, the process does not crash, and the clone and factory statements
\* are never executed.
C1_NullHandleRejected ==
    [][ (AtStep("resolve") /\ frame.ptr = 0) =>
          /\ result'.outcome = "TransferError"
          /\ result'.target = 0 /\ result'.arc = 0 /\ result'.built = 0
          /\ result'.steps = Prefix(3)
          /\ stack' = Outer
          /\ strong' = strong /\ freed' = freed /\ carriers' = carriers
          /\ engines' = engines
          /\ crashed' = crashed ]_vars
C1_Witness ==
    /\ JITDone /\ result.outcome = "TransferError" /\ result.ptr = 0
    /\ result.arg.kind = "duck"
    /\ Depth > 0
    /\ \E k \in CarrierIds : Alive(k)

\* C2  Atomic construction, as claimed for both variants: a finished
\* constructor call with a compiler present either yields an engine or an
\* error; when the compiler's handle is null the error is the TransferError,
\* the factory was not called and nothing was built.
C2_AtomicConstruction ==
    (result.variant \in Variants /\ NullHandleArg(result.arg)) =>
        /\ result.outcome = "TransferError"
        /\ "factory" \notin Range(result.steps)
        /\ result.built = 0

\* The part of C2 that concerns JIT alone (it holds): a JIT::new call with a
\* compiler present ends with an engine or with an error; with a null handle
\* the error is the TransferError, nothing was cloned, built or counted.
JIT_AtomicConstruction ==
    (JITDone /\ Present(result.arg)) =>
        /\ result.outcome = "Ok" <=> result.steps = Protocol
        /\ result.outcome # "Ok" => (result.built = 0 /\ "factory" \notin Range(result.steps))
        /\ (NullHandleArg(result.arg) \/ (result.ptr = 0 /\ Len(result.steps) > 2))
              => result.outcome = "TransferError"
        /\ \A k \in CarrierIds : strong[k] = (IF Alive(k) THEN 1 ELSE 0)

\* C3  Headless default, as claimed for both variants: a constructor call
\* with the compiler absent succeeds, yields an engine without compiler, and
\* runs none of the statements of the Some arm.
C3_HeadlessDefault ==
    (result.variant \in Variants /\ ~Present(result.arg)) =>
        /\ result.outcome = "Ok"
        /\ result.built = Headless
        /\ result.steps = <<>>

\* The part of C3 that concerns JIT alone (it holds).
JIT_HeadlessDefault ==
    (JITDone /\ ~Present(result.arg)) =>
        /\ result.outcome = "Ok"
        /\ result.built = Headless
        /\ result.steps = <<>>

\* C4  Reference survival, as claimed: once an engine has been built from a
\* carrier's handle, the configuration is not destroyed although the carrier
\* is gone.
C4_ReferenceSurvival ==
    (JITDone /\ result.outcome = "Ok" /\ result.arc \in CarrierIds
        /\ ~Alive(result.arc)) => ~freed[result.arc]

\* C4 amended.  The configuration of a wrapped carrier is alive exactly
\* while the carrier or a clone held by a running JIT::new is alive, i.e.
\* while its strong count is positive; the clone is dropped before JIT::new
\* returns, so once the build is over the configuration is destroyed as soon
\* as its carrier is dropped.
C4_FreedWithLastOwner ==
    /\ \A k \in CarrierIds :
         carriers[k].st # "unused" =>
           /\ freed[k] <=> (strong[k] = 0)
           /\ freed[k] <=> (~Alive(k) /\ Clones(k) = 0)
    /\ (JITDone /\ result.outcome = "Ok" /\ result.arc \in CarrierIds) =>
           (freed[result.arc] <=> ~Alive(result.arc))
C4_Witness ==
    /\ JITDone /\ result.outcome = "Ok" /\ result.arc \in CarrierIds
    /\ ~Alive(result.arc) /\ freed[result.arc]
    /\ engines["JIT"] > 0

\* C5  Round trip.  The handle read from a live carrier resolves to that same
\* carrier (not to another one); a build from a compiler object, which wraps
\* a configuration c, reads the handle and resolves it, dereferences the
\* carrier it has just wrapped, clones that carrier's Arc, never crashes, and
\* builds from c.
C5_RoundTrip ==
    /\ \A k \in CarrierIds :
         (Alive(k) /\ lastHandle[k] # 0) =>
            /\ AsRef(lastHandle[k]) # NullRef
            /\ ObjAt(AsRef(lastHandle[k])) = k
    /\ \A f \in Frames :
         f.arg.kind = "compiler" =>
           /\ ~crashed
           /\ PastResolve(f) =>
                /\ f.target = f.obj /\ f.arc = f.obj
                /\ Alive(f.target) /\ ~freed[f.target]
                /\ carriers[f.target].cfg = f.arg.cfg
           /\ f.pc = "return" => f.built = f.arg.cfg
    /\ (JITDone /\ result.arg.kind = "compiler") =>
         /\ result.outcome = "Ok"
         /\ result.built = result.arg.cfg
C5_Witness ==
    /\ frame.arg.kind = "compiler" /\ frame.pc = "return"
    /\ \E j \in CarrierIds :
         /\ j # frame.target /\ Alive(j)
         /\ carriers[j].cfg # frame.built
         /\ lastHandle[j] # 0

\* C6  Idempotent, pure accessor.  For a live carrier, __inner_as_ptr
\* returns what it returned before and what it would return now, whatever
\* happened in between, and a step in which a handle is read changes no
\* strong count and destroys nothing.
C6_IdempotentAccessor ==
    /\ [](\A k \in CarrierIds :
            (Alive(k) /\ lastHandle[k] # 0) => lastHandle[k] = InnerAsPtr(k))
    /\ [][ /\ \A k \in CarrierIds :
                (Alive(k) /\ lastHandle[k] # 0 /\ carriers'[k].st = "alive")
                    => lastHandle'[k] = lastHandle[k]
           /\ (carriers' = carriers /\ lastHandle' # lastHandle)
                => (strong' = strong /\ freed' = freed) ]_vars
C6_Witness ==
    \E k, j \in CarrierIds :
        /\ k < j /\ Alive(k) /\ lastHandle[k] # 0
        /\ carriers[j].st = "dropped"
        /\ engines["JIT"] > 0

\* C7  Isolation.  The handles of two live carriers differ and none is zero;
\* so a value is handed out again only after its carrier has been dropped.
C7_Isolation ==
    /\ [](\A j, k \in CarrierIds :
            Alive(k) =>
              /\ InnerAsPtr(k) # 0
              /\ (Alive(j) /\ j # k) => InnerAsPtr(j) # InnerAsPtr(k))
    /\ [][ \A j, k \in CarrierIds :
              (~Alive(k) /\ carriers'[k].st = "alive" /\ Alive(j))
                 => carriers'[k].addr # InnerAsPtr(j) ]_vars
C7_Witness ==
    \E j, k \in CarrierIds :
        /\ j # k /\ Alive(j) /\ Alive(k)
        /\ carriers[j].cfg = carriers[k].cfg
        /\ lastHandle[j] # 0 /\ lastHandle[k] # 0

\* C8  Shared ownership by engines, as claimed: right after a successful
\* build from carrier k's handle the new engine is alive and is a co-owner,
\* so the strong count is the number of live carriers holding the cell plus
\* one.
C8_EngineIsCoOwner ==
    (JITDone /\ result.outcome = "Ok" /\ result.arc \in CarrierIds
        /\ engines["JIT"] > 0) =>
        strong[result.arc] = (IF Alive(result.arc) THEN 1 ELSE 0) + 1

\* C8 amended.  The co-owner is the running JIT::new, not the engine: the
\* strong count of a cell is 1 if its carrier is alive plus 1 for each
\* activation that holds a clone of it, and when the build has returned the
\* count is back to what the carrier alone accounts for, whether or not the
\* engine lives.
C8_OwnersAreCarrierAndActivation ==
    /\ \A k \in CarrierIds :
         strong[k] = (IF Alive(k) THEN 1 ELSE 0) + Clones(k)
    /\ (JITDone /\ result.outcome = "Ok" /\ result.arc \in CarrierIds) =>
         strong[result.arc] = (IF Alive(result.arc) THEN 1 ELSE 0)
C8_Witness ==
    /\ JITDone /\ result.outcome = "Ok" /\ result.arc \in CarrierIds
    /\ Alive(result.arc) /\ strong[result.arc] = 1
    /\ engines["JIT"] > 0

\* C9  Handle validity, as claimed: an integer that __inner_as_ptr returned
\* is never dereferenced when no live carrier is at that address.
C9_HandleValidity ==
    \A f \in Frames :
        (f.ptr \in issued /\ Dereferenced(f)) => (f.target # Wild /\ ~crashed)

\* C10  Protocol ordering, as claimed: the statements run in source order,
\* the object of step 1 is alive at step 3, an error ends the call at the
\* failing statement, and every resolved integer was returned before by
\* __inner_as_ptr of a wrapped carrier.
OrderingHolds ==
    /\ \A f \in Frames :
         /\ IsPrefix(f.steps, Protocol)
         /\ (~crashed /\ Len(f.steps) < Len(Protocol)) => f.pc = Protocol[Len(f.steps) + 1]
         /\ (~crashed /\ Len(f.steps) = Len(Protocol)) => f.pc = "return"
         /\ (PastResolve(f) /\ f.obj # Duck) => Alive(f.obj)
    /\ (JITDone /\ Present(result.arg)) =>
         /\ result.outcome = "CallError" => result.steps = Prefix(1)
         /\ result.outcome \in {"PtrCallError", "ExtractError"} => result.steps = Prefix(2)
         /\ result.outcome = "TransferError" => result.steps = Prefix(3)
         /\ result.outcome = "Ok" => result.steps = Protocol
         /\ result.outcome \in {"CallError", "PtrCallError", "ExtractError",
                                "TransferError", "Ok"}
C10_ProtocolOrdering ==
    /\ OrderingHolds
    /\ \A f \in Frames : "resolve" \in Range(f.steps) => f.ptr \in issued
    /\ (JITDone /\ "resolve" \in Range(result.steps)) => result.ptr \in issued

\* C10 amended.  As above, except that the resolved integer is whatever step
\* 2 extracted in the same call: the address of the carrier wrapped in step
\* 1, or any integer (zero included) that a foreign object's __inner_as_ptr
\* gave.
C10_OrderingAndStepTwoValue ==
    /\ OrderingHolds
    /\ \A f \in Frames :
         f.pc \in {"resolve", "clone", "factory", "return"} =>
           /\ f.ptr \in 0..WildAddr
           /\ f.obj # Duck => f.ptr = InnerAsPtr(f.obj)
           /\ f.arg.kind = "null" => f.ptr = 0
    /\ (JITDone /\ "resolve" \in Range(result.steps)) =>
         /\ result.ptr \in 0..WildAddr
         /\ result.arg.kind = "null" => result.ptr = 0
C10_Witness ==
    /\ JITDone /\ result.outcome = "Ok" /\ result.steps = Protocol
    /\ result.arg.kind = "duck" /\ result.arc \in CarrierIds
    /\ Depth > 0

====
